---------------------------- MODULE Spec2Model ----------------------------
(***************************************************************************)
(* The contract explainer (src/app.py): the clause detector               *)
(* perform_enhanced_pattern_analysis with its caller, the /analyze-clauses *)
(* handler, and the upload handler of /api/analyze.                        *)
(*                                                                         *)
(* Texts are TLA+ strings; Python's zero-based slices text[a:b] are       *)
(* Slice(text, a, b).  A confidence is kept as an integer number of       *)
(* hundredths (0.95 is 95), TLA+ having no floating point numbers.        *)
(***************************************************************************)
EXTENDS Integers, Sequences, FiniteSets, TLC

VARIABLES
    pc,                \* "idle", "scan" (inside the detector's loop) or "done"
    caller,            \* who called the detector: "direct" or "handler"
    request,           \* the HTTP request being handled (NoRequest for a direct call)
    text,              \* the detector's parameter text
    clause_types,      \* the detector's parameter clause_types
    idx,               \* how many entries of clause_types the loop has visited
    detected_clauses,  \* the detector's list detected_clauses
    results,           \* what the detector returned (NoResults before it returns)
    response,          \* what the handler answered (NoResponse before it answers)
    invoked,           \* whether the detector was called for the current request
    memo,              \* history: an earlier completed call, its inputs and its results
    error,             \* the exception raised while the current call ran ("": none)
    calls,             \* the detector calls that run at the same time, each with its locals
    invalid,           \* the rules <<category, i>> of the deployed table whose regex
                       \* does not compile (none in the table of the source)
    step,              \* where analyze_contract is: "idle", "extract", "check",
                       \* "explain" or "done"
    upload,            \* the POST to /api/analyze being handled (none: <<>>)
    filename,          \* analyze_contract's local filename
    extracted_text,    \* analyze_contract's local text (None: <<>>)
    analysis,          \* analyze_contract's local analysis (None: <<>>)
    reply,             \* what /api/analyze answered (nothing yet: <<>>)
    extractions,       \* how often a text extraction was run for the upload
    llm_calls,         \* how often explain_contract was called for the upload
    helper_call,       \* a call of one of the helpers on its own (none: <<>>)
    metrics,           \* ApplicationMonitor.metrics
    start_time,        \* ApplicationMonitor.start_time (<<>>: the attribute is not set)
    clock,             \* the time, in minutes
    traffic,           \* history: the requests that arrived, were completed, timed, raised
    threads,           \* the request each server thread handles and its place in it
    health             \* the last answer of /health/detailed (none: <<>>)

\* the variables of the single detector call and the /analyze-clauses handler
detector_vars ==
    <<pc, caller, request, text, clause_types, idx, detected_clauses,
      results, response, invoked, memo, error>>

\* the variables of /api/analyze
upload_vars ==
    <<step, upload, filename, extracted_text, analysis, reply, extractions, llm_calls>>

\* the variables of the monitor (monitoring.py)
monitor_vars == <<metrics, start_time, clock, traffic, threads, health>>

\* the variables of the helpers called on their own and of the monitor
side_vars == <<helper_call, monitor_vars>>

\* the variables of the other parts of the program
others == <<calls, invalid, upload_vars, side_vars>>

vars == <<detector_vars, others>>

----------------------------------------------------------------------------
(* Python strings *)

\* text[a:b] for 0 <= a, b <= len(text)
Slice(s, a, b) == SubSeq(s, a + 1, b)

\* text[i]
CharAt(s, i) == SubSeq(s, i + 1, i + 1)

LowerTable ==
    [A |-> "a", B |-> "b", C |-> "c", D |-> "d", E |-> "e", F |-> "f", G |-> "g",
     H |-> "h", I |-> "i", J |-> "j", K |-> "k", L |-> "l", M |-> "m", N |-> "n",
     O |-> "o", P |-> "p", Q |-> "q", R |-> "r", S |-> "s", T |-> "t", U |-> "u",
     V |-> "v", W |-> "w", X |-> "x", Y |-> "y", Z |-> "z"]

UpperCase == DOMAIN LowerTable

\* the case folding re.IGNORECASE applies to a character
Lower(c) == IF c \in UpperCase THEN LowerTable[c] ELSE c

\* the characters str.strip() removes
Whitespace == {" ", "\t", "\n", "\r", "\f"}

RECURSIVE LStripFrom(_, _)
LStripFrom(s, a) ==
    IF a < Len(s) /\ CharAt(s, a) \in Whitespace THEN LStripFrom(s, a + 1) ELSE a

RECURSIVE RStripTo(_, _, _)
RStripTo(s, a, b) ==
    IF b > a /\ CharAt(s, b - 1) \in Whitespace THEN RStripTo(s, a, b - 1) ELSE b

\* s.strip()
Strip(s) == Slice(s, LStripFrom(s, 0), RStripTo(s, LStripFrom(s, 0), Len(s)))

Min(a, b) == IF a < b THEN a ELSE b

Max(a, b) == IF a > b THEN a ELSE b

----------------------------------------------------------------------------
(* The rule table: category -> rules <<regex, confidence, risk>> *)

patterns ==
    [governance |-> <<
        <<"shareholder.*vote.*accordance.*with.*instructions.*provided.*by.*president", 95, "high">>,
        <<"vote.*shares.*accordance.*president.*instructions", 90, "high">>,
        <<"governance.*compromise.*president.*instructions", 85, "high">>,
        <<"holder.*vote.*shares.*accordance.*instructions.*president", 80, "high">> >>,
     drag_along |-> <<
        <<"drag.along.*right.*ninety.five.*per.*cent", 95, "high">>,
        <<"95%.*holders.*shares.*offeror.*require.*sell", 90, "high">>,
        <<"offeror.*may.*require.*holders.*sell.*shares", 85, "high">>,
        <<"forced.*sale.*shares.*majority.*shareholders", 80, "high">> >>,
     tag_along |-> <<
        <<"tag.along.*right.*transferor.*shareholder", 95, "low">>,
        <<"holder.*sell.*shares.*same.*price.*terms", 90, "low">>,
        <<"shareholder.*transfer.*shares.*holder.*right.*sell", 85, "low">>,
        <<"protection.*minority.*shareholders.*sales", 80, "low">> >>,
     priority_allocation |-> <<
        <<"priority.*allocation.*sale.*price.*waterfall", 95, "medium">>,
        <<"liquidation.*preference.*distribution.*proceeds", 90, "medium">>,
        <<"sale.*proceeds.*allocated.*priority.*order", 85, "medium">>,
        <<"distribution.*waterfall.*priority.*shareholders", 80, "medium">> >>,
     non_compete |-> <<
        <<"non.compete.*restrictions.*remain.*applicable.*avoidance.*doubts", 95, "medium">>,
        <<"non.solicit.*provisions.*survive.*completion", 90, "medium">>,
        <<"restrictions.*continue.*apply.*after.*sale", 85, "medium">>,
        <<"competition.*restrictions.*remain.*effect", 80, "medium">> >>]

----------------------------------------------------------------------------
(* The regular expressions of the table, as re matches them under         *)
(* re.IGNORECASE | re.DOTALL.  Every regex of the table is a sequence of  *)
(* literal pieces separated by ".*"; inside a piece "." stands for any    *)
(* one character and every other character for itself.                    *)

\* the end of the piece that starts at offset a: the offset of the next ".*" or the end
RECURSIVE PieceEnd(_, _)
PieceEnd(regex, a) ==
    IF a >= Len(regex) THEN Len(regex)
    ELSE IF a + 1 < Len(regex) /\ Slice(regex, a, a + 2) = ".*" THEN a
    ELSE PieceEnd(regex, a + 1)

\* re.compile: the pieces of a regex, in order
RECURSIVE PiecesFrom(_, _)
PiecesFrom(regex, a) ==
    LET b == PieceEnd(regex, a)
    IN  IF b >= Len(regex) THEN <<Slice(regex, a, b)>>
        ELSE <<Slice(regex, a, b)>> \o PiecesFrom(regex, b + 2)

Compile(regex) == PiecesFrom(regex, 0)

\* CharMatches with "." standing for a full stop only
CharMatches_LiteralDot(pc_, c) == c = pc_ \/ Lower(c) = Lower(pc_)

\* one pattern character against one text character
CharMatches(pc_, c) == pc_ = "." \/ c = pc_ \/ Lower(c) = Lower(pc_)

\* does the piece match the text at offset p
PieceAt(piece, s, p) ==
    /\ p + Len(piece) <= Len(s)
    /\ \A k \in 0 .. (Len(piece) - 1) : CharMatches(CharAt(piece, k), CharAt(s, p + k))

\* MatchEnd with a ".*" that takes as few characters as it can, as ".*?" does
RECURSIVE MatchEnd_Lazy(_, _, _, _)
MatchEnd_Lazy(pieces, i, s, p) ==
    IF ~PieceAt(pieces[i], s, p) THEN -1
    ELSE IF i = Len(pieces) THEN p + Len(pieces[i])
    ELSE LET from == p + Len(pieces[i])
             ok == {q \in from .. Len(s) : MatchEnd_Lazy(pieces, i + 1, s, q) # -1}
         IN  IF ok = {} THEN -1
             ELSE MatchEnd_Lazy(pieces, i + 1, s, CHOOSE q \in ok : \A r \in ok : q <= r)

\* The end offset of the match of pieces[i..] whose piece i starts at offset p,
\* or -1 when there is none.  Each ".*" is greedy: among the offsets where the
\* rest can still match it takes the rightmost.
RECURSIVE MatchEnd(_, _, _, _)
MatchEnd(pieces, i, s, p) ==
    IF ~PieceAt(pieces[i], s, p) THEN -1
    ELSE IF i = Len(pieces) THEN p + Len(pieces[i])
    ELSE LET from == p + Len(pieces[i])
             ok == {q \in from .. Len(s) : MatchEnd(pieces, i + 1, s, q) # -1}
         IN  IF ok = {} THEN -1
             ELSE MatchEnd(pieces, i + 1, s, CHOOSE q \in ok : \A r \in ok : r <= q)

\* re.search from offset pos: the leftmost start with a match, as <<start, end>>, or <<>>
Search(pieces, s, pos) ==
    LET starts == {a \in pos .. Len(s) : MatchEnd(pieces, 1, s, a) # -1}
    IN  IF starts = {} THEN <<>>
        ELSE LET a == CHOOSE x \in starts : \A y \in starts : x <= y
             IN  <<a, MatchEnd(pieces, 1, s, a)>>

\* re.finditer: the non-overlapping matches from left to right, each [start, end]
RECURSIVE FindFrom(_, _, _)
FindFrom(pieces, s, pos) ==
    IF pos > Len(s) THEN <<>>
    ELSE LET m == Search(pieces, s, pos)
         IN  IF m = <<>> THEN <<>>
             ELSE <<[start |-> m[1], end |-> m[2]]>>
                  \o FindFrom(pieces, s, IF m[2] > m[1] THEN m[2] ELSE m[2] + 1)

\* FindAll that looks for a match at the start of the text only, as re.match does
FindAll_Anchored(pattern, s) ==
    LET e == MatchEnd(Compile(pattern), 1, s, 0)
    IN  IF e = -1 THEN <<>> ELSE <<[start |-> 0, end |-> e]>>

FindAll(pattern, s) == FindFrom(Compile(pattern), s, 0)


----------------------------------------------------------------------------
(* The contract texts of the model *)

TEmpty == ""

\* no rule matches; whitespace at both ends
TNone == "  This agreement has no such clause.\n"

\* the sentence of a governance compromise clause, alone
TGov == "The shareholder shall vote shares in accordance with instructions provided by the president"

\* a drag-along clause in mixed case over two lines, with more than
\* ContextChars characters on both sides and whitespace at the window's edges
TDrag == "Clause 9  of this agreement sets out the transfer terms. \nDRAG ALONG Right: holders of\nninety-five per cent may act. \tAll notice under this clause are to be sent  in writing."

\* every rule of governance and the first three rules of drag_along match
TAll ==
    "governance compromise: shareholder vote shares accordance with instructions provided by president instructions; "
    \o "drag along right ninety five per cent 95% holders shares offeror may require holders sell shares"

\* the drag-along phrase twice
TTwice == " drag along right ninety five per cent and then drag along right ninety five per cent "

\* clauses of the three other categories
TMix ==
    "Tag-along right of the transferor shareholder, a protection of minority "
    \o "shareholders in sales. Liquidation preference in the "
    \o "distribution of proceeds.\nThe non-solicit provisions survive completion."

Texts == {TEmpty, TNone, TGov, TDrag, TAll, TTwice, TMix}

\* every regex of the table
Regexes ==
    UNION {{patterns[c][i][1] : i \in 1 .. Len(patterns[c])} : c \in DOMAIN patterns}

\* re.finditer over the texts of the model, computed once (re keeps its compiled
\* patterns in a cache; the table changes no value, it only saves the repetition)
FindAllTable == [s \in Texts |-> [r \in Regexes |-> FindAll(r, s)]] @@ <<>>

\* re.finditer(pattern, s, re.IGNORECASE | re.DOTALL)
finditer(pattern, s) ==
    IF s \in Texts /\ pattern \in Regexes THEN FindAllTable[s][pattern]
    ELSE FindAll(pattern, s)

----------------------------------------------------------------------------
(* perform_enhanced_pattern_analysis *)

\* how many characters of context are kept on each side of a match
ContextChars == 50

\* how many entries the returned list keeps
Limit == 15

\* list[:n]
Take(list, n) == SubSeq(list, 1, Min(n, Len(list)))

\* Context without the strip
Context_NoStrip(s, m) ==
    LET start == Max(0, m.start - ContextChars)
        end == Min(Len(s), m.end + ContextChars)
    IN  Slice(s, start, end)

\* Context with a window around the start of the match only
Context_AroundStart(s, m) ==
    LET start == Max(0, m.start - ContextChars)
        end == Min(Len(s), m.start + ContextChars)
    IN  Strip(Slice(s, start, end))

\* the context of a match: the window around it, clipped to the text, stripped
Context(s, m) ==
    LET start == Max(0, m.start - ContextChars)
        end == Min(Len(s), m.end + ContextChars)
    IN  Strip(Slice(s, start, end))

\* Entry with a one-based position
Entry_OneBased(s, clause_type, rule, m) ==
    [text |-> Slice(s, m.start, m.end),
     context |-> Context(s, m),
     type |-> clause_type,
     confidence |-> rule[2],
     risk_level |-> rule[3],
     position |-> m.start + 1]

\* Entry with the confidence of the category's first rule
Entry_FirstRule(s, clause_type, rule, m) ==
    [text |-> Slice(s, m.start, m.end),
     context |-> Context(s, m),
     type |-> clause_type,
     confidence |-> patterns[clause_type][1][2],
     risk_level |-> rule[3],
     position |-> m.start]

\* the entry appended for match m of rule <<pattern, confidence, risk>>
Entry(s, clause_type, rule, m) ==
    [text |-> Slice(s, m.start, m.end),
     context |-> Context(s, m),
     type |-> clause_type,
     confidence |-> rule[2],
     risk_level |-> rule[3],
     position |-> m.start]

\* the inner loop: the entries of one rule, one per match, in the order of finditer
RuleEntries(s, clause_type, rule) ==
    LET ms == finditer(rule[1], s)
    IN  [k \in 1 .. Len(ms) |-> Entry(s, clause_type, rule, ms[k])]

\* the loop over the rules of one category, from rule i on
RECURSIVE RulesFrom(_, _, _)
RulesFrom(s, clause_type, i) ==
    IF i > Len(patterns[clause_type]) THEN <<>>
    ELSE RuleEntries(s, clause_type, patterns[clause_type][i])
         \o RulesFrom(s, clause_type, i + 1)

\* Appended with the rules of governance standing in for an unknown name
Appended_Default(s, clause_type) ==
    IF clause_type \in DOMAIN patterns THEN RulesFrom(s, clause_type, 1)
    ELSE RulesFrom(s, "governance", 1)

\* one iteration of the outer loop: what it appends for clause_type
Appended(s, clause_type) ==
    IF clause_type \in DOMAIN patterns THEN RulesFrom(s, clause_type, 1) ELSE <<>>

\* NewList that keeps the list of the call before
NewList_Stale == detected_clauses

\* detected_clauses = []
NewList == <<>>

\* Returned with the length of the cut list as total_found
Returned_CutTotal(list) ==
    [detected_clauses |-> Take(list, Limit),
     analysis_method |-> "enhanced_pattern_matching",
     success |-> TRUE,
     total_found |-> Len(Take(list, Limit))]

\* the entries of list whose confidence is c, in their order
WithConfidence(list, c) ==
    LET Is(m) == m.confidence = c
    IN  SelectSeq(list, Is)

\* Returned with the list ranked by descending confidence before it is cut
Returned_Ranked(list) ==
    [detected_clauses |->
        Take(WithConfidence(list, 95) \o WithConfidence(list, 90)
             \o WithConfidence(list, 85) \o WithConfidence(list, 80), Limit),
     analysis_method |-> "enhanced_pattern_matching",
     success |-> TRUE,
     total_found |-> Len(list)]

\* Returned with an empty list reported as a failure
Returned_FailOnEmpty(list) ==
    [detected_clauses |-> Take(list, Limit),
     analysis_method |-> "enhanced_pattern_matching",
     success |-> Len(list) > 0,
     total_found |-> Len(list)]

\* the returned dictionary
Returned(list) ==
    [detected_clauses |-> Take(list, Limit),
     analysis_method |-> "enhanced_pattern_matching",
     success |-> TRUE,
     total_found |-> Len(list)]

----------------------------------------------------------------------------
(* The inputs: clause_types lists, request bodies *)

\* the names a request may put in clause_types; the last is no key of the table
Names ==
    {"governance", "drag_along", "tag_along", "priority_allocation", "non_compete",
     "unknown_type"}

\* the longest clause_types list that is tried with every combination of names
MaxTypes == 2

\* the lists over Names of length n
RECURSIVE ListsOfLen(_)
ListsOfLen(n) ==
    IF n = 0 THEN {<<>>}
    ELSE {Append(l, x) : l \in ListsOfLen(n - 1), x \in Names}

ShortTypes == UNION {ListsOfLen(n) : n \in 0 .. MaxTypes}

\* longer lists, which repeat categories, and the list of every category
LongTypes ==
    {<<"governance", "governance", "governance", "governance">>,
     <<"governance", "governance", "governance", "drag_along">>,
     <<"governance", "drag_along", "governance", "drag_along", "governance">>,
     <<"drag_along", "unknown_type", "governance", "tag_along", "drag_along", "governance", "governance">>,
     <<"non_compete", "priority_allocation", "tag_along", "drag_along", "governance">>}

TypeLists == ShortTypes \cup LongTypes

\* the bodies a POST to /analyze-clauses may carry.  kind: "malformed" (get_json
\* raises), "non_object" (JSON that is no object: null, a list, a number) or
\* "object".  text_kind: document_text is "absent", "null", a "string", "falsy"
\* (0, false, [] or {}) or a "number" other than 0; document_text is the string.
\* types_kind: clause_types is "absent", an "array", "null" or a "number";
\* clause_types is the array, and unhashable is the set of the places of the
\* array whose element is the category wrapped in a list (["governance"]).
Body(kind, text_kind, document_text, types_kind, types, unhashable) ==
    [kind |-> kind, text_kind |-> text_kind, document_text |-> document_text,
     types_kind |-> types_kind, clause_types |-> types, unhashable |-> unhashable]

\* the clause_types lists of request bodies
BodyTypes == {l \in TypeLists : Len(l) <= 1} \cup {<<"drag_along", "governance">>}

\* the bodies whose values have the types the handler expects
TypedBodies ==
    {Body("object", k, "", "array", l, {}) : k \in {"absent", "null", "falsy"}, l \in BodyTypes}
    \cup {Body("object", k, "", "absent", <<>>, {}) : k \in {"absent", "null", "falsy"}}
    \cup {Body("object", "string", t, "array", l, {}) : t \in Texts, l \in BodyTypes}
    \cup {Body("object", "string", t, "absent", <<>>, {}) : t \in Texts}

\* the bodies with a value of another type: no JSON object, a clause_types that
\* is no array, an element of clause_types that is a list, a document_text that
\* is a number
UntypedBodies ==
    {Body("malformed", "absent", "", "absent", <<>>, {}),
     Body("non_object", "absent", "", "absent", <<>>, {})}
    \cup {Body("object", "string", t, k, <<>>, {}) : t \in Texts, k \in {"null", "number"}}
    \cup {Body("object", "absent", "", k, <<>>, {}) : k \in {"null", "number"}}
    \cup {Body("object", "string", t, "array", l, {i}) :
              t \in {TEmpty, TGov, TAll},
              l \in {<<"governance">>, <<"drag_along", "governance">>,
                     <<"governance", "unknown_type", "drag_along">>},
              i \in 1 .. 3}
    \cup {Body("object", "number", "", "array", l, {}) : l \in BodyTypes}
    \cup {Body("object", "number", "", k, <<>>, {}) : k \in {"absent", "null"}}

Bodies ==
    {b \in TypedBodies \cup UntypedBodies :
        \A i \in b.unhashable :
            i \in 1 .. Len(b.clause_types) /\ b.clause_types[i] \in DOMAIN patterns}

----------------------------------------------------------------------------
(* The state machine.  One call is in progress at a time; results,         *)
(* response, request and memo hold at most one element (none: the empty   *)
(* tuple).  The variables of the detector keep their last values after it *)
(* returns, until the next call binds them again.                         *)

\* the calls whose first results the history variable memo keeps
Probes ==
    {<<TAll, <<"governance", "drag_along">> >>,
     <<TGov, <<"governance", "governance", "governance", "governance">> >>,
     <<TDrag, <<"drag_along">> >>}

\* The history variable: the first call of Probes that returns is kept with its
\* results; between tells whether a call with other inputs has returned since.
Remember(m, t, types, res) ==
    IF m = <<>>
    THEN IF <<t, types>> \in Probes
         THEN <<[text |-> t, clause_types |-> types, results |-> res, between |-> FALSE]>>
         ELSE m
    ELSE IF m[1].text = t /\ m[1].clause_types = types THEN m
    ELSE <<[m[1] EXCEPT !.between = TRUE]>>

\* how many detector calls run at the same time
NumCallers == 2

Callers == 1 .. NumCallers

\* a caller that has not called yet.  met tells whether a step of the call
\* happened while another call was inside its loop.
NoCall ==
    [pc |-> "idle", text |-> "", clause_types |-> <<>>, idx |-> 0,
     detected_clauses |-> <<>>, results |-> <<>>, met |-> FALSE]

\* how many threads of one server process handle requests
NumThreads == 2

Threads == 1 .. NumThreads

\* a thread that handles no request.  at, value and kept are the place and the
\* locals of record_metrics: which counter it is at, the counter that was
\* read, the list that was sliced.
Idle ==
    [pc |-> "idle", id |-> 0, endpoint |-> "", raises |-> FALSE, status |-> 0,
     readings |-> <<>>, at |-> 0, value |-> 0, kept |-> <<>>]

\* self.metrics of ApplicationMonitor.__init__ (active_users, which no answer
\* of the model depends on, is left out)
NoMetrics ==
    [requests_total |-> 0,
     requests_successful |-> 0,
     requests_failed |-> 0,
     uploads_total |-> 0,
     analysis_total |-> 0,
     analysis_errors |-> 0,
     response_times |-> <<>>,
     errors |-> <<>>]

\* ApplicationMonitor(app): __init__ and init_app.  They register the hooks,
\* the error handlers and the routes; neither sets start_time.
Constructed ==
    /\ metrics = NoMetrics
    /\ start_time = <<>>
    /\ clock = 0
    /\ traffic = [base |-> 0, arrived |-> 0, completed |-> 0, timed |-> <<>>,
                  raised |-> <<>>]
    /\ threads = [t \in Threads |-> Idle]
    /\ health = <<>>

\* The state after app.py is loaded.  Loading defines the functions and the
\* routes; it builds no rule table and compiles no regex, whatever the table
\* that is written in perform_enhanced_pattern_analysis.
Loaded ==
    /\ pc = "idle"
    /\ caller = "direct"
    /\ request = <<>>
    /\ text = ""
    /\ clause_types = <<>>
    /\ idx = 0
    /\ detected_clauses = <<>>
    /\ results = <<>>
    /\ response = <<>>
    /\ invoked = FALSE
    /\ memo = <<>>
    /\ error = ""
    /\ calls = [c \in Callers |-> NoCall]
    /\ step = "idle"
    /\ upload = <<>>
    /\ filename = ""
    /\ extracted_text = <<>>
    /\ analysis = <<>>
    /\ reply = <<>>
    /\ extractions = 0
    /\ llm_calls = 0
    /\ helper_call = <<>>

\* the program of the source: every regex of its table compiles
Init == Loaded /\ invalid = {} /\ Constructed

\* entering perform_enhanced_pattern_analysis(t, types): the parameters are
\* bound and detected_clauses is created
Enter(t, types) ==
    /\ text' = t
    /\ clause_types' = types
    /\ idx' = 0
    /\ detected_clauses' = NewList
    /\ results' = <<>>
    /\ invoked' = TRUE
    /\ error' = ""
    /\ pc' = "scan"

\* a caller other than the handler calls the detector
Detect(t, types) ==
    /\ pc = "idle"
    /\ caller' = "direct"
    /\ request' = <<>>
    /\ response' = <<>>
    /\ Enter(t, types)
    /\ UNCHANGED <<memo, others>>

\* NoDocumentText that only looks for the key
NoDocumentText_AbsentOnly(body) == body.text_kind = "absent"

\* data.get('document_text', ''): the value is falsy
NoDocumentText(body) ==
    \/ body.text_kind \in {"absent", "null", "falsy"}
    \/ body.text_kind = "string" /\ body.document_text = ""

\* Failure that reports the exception as a scan that found nothing
Failure_AsNoMatch == [status |-> 200, body |-> Returned(<<>>)]

\* the answer of the except branch
Failure == [status |-> 500, body |-> [error |-> "Analysis failed", detected_clauses |-> <<>>]]

\* the handler answers without calling the detector
Answer(status, body) ==
    /\ response' = <<[status |-> status, body |-> body]>>
    /\ invoked' = FALSE
    /\ pc' = "done"
    /\ UNCHANGED <<text, clause_types, idx, detected_clauses, results>>

\* POST /analyze-clauses, up to the call of the detector
AnalyzeClauses(body) ==
    /\ pc = "idle"
    /\ caller' = "handler"
    /\ request' = <<body>>
    /\ IF body.kind # "object"
       THEN \* get_json raises, or data has no get: the except branch
            /\ Answer(Failure.status, Failure.body)
            /\ error' = IF body.kind = "malformed" THEN "BadRequest" ELSE "AttributeError"
       ELSE IF NoDocumentText(body)
       THEN /\ Answer(400, [error |-> "No document text provided"])
            /\ error' = ""
       ELSE /\ response' = <<>>
            /\ Enter(body.document_text, body.clause_types)
    /\ UNCHANGED <<memo, others>>

\* The statement the detector is at raises TypeError.  Only values of a
\* request body can be of a type the detector does not expect: "for clause_type
\* in clause_types" raises when clause_types is no iterable, "clause_type in
\* patterns" raises when clause_type is a list, and re.finditer raises when
\* text is a number.
TypeFault ==
    /\ caller = "handler"
    /\ request # <<>>
    /\ \/ request[1].types_kind \in {"null", "number"}
       \/ /\ idx < Len(clause_types)
          /\ \/ (idx + 1) \in request[1].unhashable
             \/ /\ request[1].text_kind = "number"
                /\ clause_types[idx + 1] \in DOMAIN patterns

\* The iteration the detector is at reaches a rule whose regex does not
\* compile: re.finditer compiles the regex when it is called and raises re.error.
RegexFault ==
    /\ idx < Len(clause_types)
    /\ \E r \in invalid : r[1] = clause_types[idx + 1]

\* the statement the detector is at raises an exception
Raises == TypeFault \/ RegexFault

\* The exception it raises.  re.finditer compiles the regex before it looks at
\* the text, and the first rule of the category comes first.
Exception ==
    IF ~RegexFault THEN "TypeError"
    ELSE IF ~TypeFault THEN "re.error"
    ELSE IF request[1].types_kind \in {"null", "number"}
            \/ (idx + 1) \in request[1].unhashable THEN "TypeError"
    ELSE IF <<clause_types[idx + 1], 1>> \in invalid THEN "re.error"
    ELSE "TypeError"

\* one iteration of "for clause_type in clause_types"
ScanStep ==
    /\ pc = "scan"
    /\ idx < Len(clause_types)
    /\ ~Raises
    /\ detected_clauses' = detected_clauses \o Appended(text, clause_types[idx + 1])
    /\ idx' = idx + 1
    /\ UNCHANGED <<pc, caller, request, text, clause_types, results, response, invoked,
                   memo, error, others>>

\* the loop is over: the detector returns, and the handler answers jsonify(results)
Return ==
    /\ pc = "scan"
    /\ idx = Len(clause_types)
    /\ ~Raises
    /\ results' = <<Returned(detected_clauses)>>
    /\ response' = IF caller = "handler"
                   THEN <<[status |-> 200, body |-> Returned(detected_clauses)]>>
                   ELSE <<>>
    /\ memo' = Remember(memo, text, clause_types, Returned(detected_clauses))
    /\ pc' = "done"
    /\ UNCHANGED <<caller, request, text, clause_types, idx, detected_clauses, invoked,
                   error, others>>

\* an exception raised in the detector reaches the except branch of the
\* handler, which answers for it; the detector returns nothing
Except ==
    /\ pc = "scan"
    /\ caller = "handler"
    /\ Raises
    /\ error' = Exception
    /\ response' = <<Failure>>
    /\ pc' = "done"
    /\ UNCHANGED <<caller, request, text, clause_types, idx, detected_clauses,
                   results, invoked, memo, others>>

\* an exception raised in the detector when another caller than the handler
\* called it: the call ends with the exception and returns nothing
Propagate ==
    /\ pc = "scan"
    /\ caller = "direct"
    /\ Raises
    /\ error' = Exception
    /\ pc' = "raised"
    /\ UNCHANGED <<caller, request, text, clause_types, idx, detected_clauses,
                   results, response, invoked, memo, others>>

\* the caller has taken the answer: the next call may start
Finish ==
    /\ pc = "done"
    /\ pc' = "idle"
    /\ UNCHANGED <<caller, request, text, clause_types, idx, detected_clauses,
                   results, response, invoked, memo, error, others>>

\* one call or one request, with any input
Next ==
    \/ \E t \in Texts, types \in TypeLists : Detect(t, types)
    \/ \E body \in Bodies : AnalyzeClauses(body)
    \/ ScanStep
    \/ Return
    \/ Except

Spec == Init /\ [][Next]_vars

\* the inputs of the calls that follow one another
CallInputs ==
    Probes \cup {<<TAll, <<"drag_along", "governance">> >>,
                 <<TGov, <<"governance">> >>,
                 <<TEmpty, <<"governance">> >>,
                 <<TMix, <<"unknown_type", "tag_along">> >>}

\* any number of calls, one after the other
NextCalls ==
    \/ \E c \in CallInputs : Detect(c[1], c[2])
    \/ ScanStep
    \/ Return
    \/ Finish

SpecCalls == Init /\ [][NextCalls]_vars

----------------------------------------------------------------------------
(* The program with a rule table that may carry a regex that does not      *)
(* compile, as an edit of the table can leave it.                          *)

\* the tables that are deployed: the table of the source, and tables with one
\* rule of governance or drag_along whose regex does not compile
InvalidTables ==
    {{}} \cup {{<<c, i>>} : c \in {"governance", "drag_along"}, i \in 1 .. 4}

InitDeployed == Loaded /\ invalid \in InvalidTables /\ Constructed

\* the calls and requests made of the deployed program
DeployedCalls ==
    {<<t, l>> : t \in {TGov, TAll},
                l \in {<<"governance">>, <<"drag_along", "governance">>, <<"unknown_type">>}}

\* the same as the bodies of requests
DeployedBodies ==
    {Body("object", "string", c[1], "array", c[2], {}) : c \in DeployedCalls}

NextDeployed ==
    \/ \E c \in DeployedCalls : Detect(c[1], c[2])
    \/ \E body \in DeployedBodies : AnalyzeClauses(body)
    \/ ScanStep
    \/ Return
    \/ Except
    \/ Propagate

SpecDeployed == InitDeployed /\ [][NextDeployed]_vars

----------------------------------------------------------------------------
(* Calls of the detector for texts that contain a known clause, with the   *)
(* one category of the clause requested.                                    *)

\* the sentence of a governance compromise clause
GovernanceSentence ==
    "The shareholder shall vote shares in accordance with instructions provided by the president"

\* the phrase of a drag-along clause
DragAlongPhrase == "drag along right ninety five per cent"

\* what stands before the clause in the text
Before ==
    {"", "Clause 4.2\n", "Each Shareholder and the President agree on a drag. "}

\* what stands after the clause in the text
After ==
    {"", ".", ", and the president may give further instructions; ten per cent suffice.\n"}

GovernanceTexts == {b \o GovernanceSentence \o a : b \in Before, a \in After}

DragAlongTexts == {b \o DragAlongPhrase \o a : b \in Before, a \in After}

\* the list that names category c n times
RECURSIVE Repeat(_, _)
Repeat(c, n) == IF n = 0 THEN <<>> ELSE <<c>> \o Repeat(c, n - 1)

\* how often the one category is named: once, twice, and so often that the
\* matches of the rounds exceed the limit
Repeats == {1, 2, 8}

ScenarioInputs ==
    {<<t, Repeat("governance", n)>> : t \in GovernanceTexts, n \in Repeats}
    \cup {<<t, Repeat("drag_along", n)>> : t \in DragAlongTexts, n \in Repeats}

NextScenarios ==
    \/ \E c \in ScenarioInputs : Detect(c[1], c[2])
    \/ ScanStep
    \/ Return

SpecScenarios == Init /\ [][NextScenarios]_vars

----------------------------------------------------------------------------
(* Detector calls that run at the same time, as the requests of a threaded  *)
(* server do.  Everything a call writes is a local of the call: the table  *)
(* patterns and the list detected_clauses are created by the call itself.  *)
(* A step is one iteration of the outer loop; the steps of the calls       *)
(* interleave in any order.                                                 *)

\* the inputs of the calls that run at the same time
ConcurrentInputs ==
    {<<TAll, <<"drag_along", "governance">> >>,
     <<TGov, <<"governance", "governance">> >>,
     <<TMix, <<"unknown_type", "tag_along">> >>}

\* another call is inside its loop
Overlaps(c) ==
    \E d \in Callers \ {c} :
        calls[d].pc = "scan" /\ 0 < calls[d].idx /\ calls[d].idx < Len(calls[d].clause_types)

\* ListOf that reads the list of the first caller, as a list of the module
\* that every call appends to would be read
ListOf_Shared(c) == calls[1].detected_clauses

\* the list detected_clauses of call c, a local of the call
ListOf(c) == calls[c].detected_clauses

\* caller c enters the detector
ConcurrentEnter(c, t, types) ==
    /\ calls[c].pc = "idle"
    /\ calls' = [calls EXCEPT ![c] =
          [pc |-> "scan", text |-> t, clause_types |-> types, idx |-> 0,
           detected_clauses |-> NewList, results |-> <<>>, met |-> FALSE]]
    /\ UNCHANGED <<detector_vars, invalid, upload_vars, side_vars>>

\* one iteration of the outer loop of call c
ConcurrentScanStep(c) ==
    /\ calls[c].pc = "scan"
    /\ calls[c].idx < Len(calls[c].clause_types)
    /\ LET call == calls[c]
       IN  calls' = [calls EXCEPT ![c] =
               [call EXCEPT !.detected_clauses =
                                ListOf(c) \o Appended(call.text, call.clause_types[call.idx + 1]),
                            !.idx = call.idx + 1,
                            !.met = call.met \/ Overlaps(c)]]
    /\ UNCHANGED <<detector_vars, invalid, upload_vars, side_vars>>

\* call c returns
ConcurrentReturn(c) ==
    /\ calls[c].pc = "scan"
    /\ calls[c].idx = Len(calls[c].clause_types)
    /\ calls' = [calls EXCEPT ![c] =
          [calls[c] EXCEPT !.results = <<Returned(ListOf(c))>>, !.pc = "done"]]
    /\ UNCHANGED <<detector_vars, invalid, upload_vars, side_vars>>

NextConcurrent ==
    \/ \E c \in Callers, i \in ConcurrentInputs : ConcurrentEnter(c, i[1], i[2])
    \/ \E c \in Callers : ConcurrentScanStep(c)
    \/ \E c \in Callers : ConcurrentReturn(c)

SpecConcurrent == Init /\ [][NextConcurrent]_vars

----------------------------------------------------------------------------
(* /api/analyze: the upload of a contract file.  Python strings again.     *)

\* s.lower()
RECURSIVE LowerStr(_)
LowerStr(s) == IF s = "" THEN "" ELSE Lower(CharAt(s, 0)) \o LowerStr(Slice(s, 1, Len(s)))

\* the offset of the last "." of s before offset b, or -1
RECURSIVE LastDot(_, _)
LastDot(s, b) ==
    IF b = 0 THEN -1
    ELSE IF CharAt(s, b - 1) = "." THEN b - 1
    ELSE LastDot(s, b - 1)

\* '.' in s
HasDot(s) == LastDot(s, Len(s)) # -1

\* s.rsplit('.', 1)[1], for a string s with a "."
Extension(s) == Slice(s, LastDot(s, Len(s)) + 1, Len(s))

\* s.endswith(suffix)
EndsWith(s, suffix) ==
    Len(suffix) <= Len(s) /\ Slice(s, Len(s) - Len(suffix), Len(s)) = suffix

ALLOWED_EXTENSIONS == {"pdf", "docx", "doc", "txt"}

\* allowed_file that lets every name pass
allowed_file_Any(name) == TRUE

\* '.' in filename and filename.rsplit('.', 1)[1].lower() in ALLOWED_EXTENSIONS
allowed_file(name) ==
    HasDot(name) /\ LowerStr(Extension(name)) \in ALLOWED_EXTENSIONS

\* the characters of a string, as a set
CharsOf(s) == {CharAt(s, k) : k \in 0 .. (Len(s) - 1)}

\* the characters secure_filename keeps: [A-Za-z0-9_.-]
FilenameChars ==
    CharsOf("abcdefghijklmnopqrstuvwxyzABCDEFGHIJKLMNOPQRSTUVWXYZ0123456789_.-")

\* "_".join(s.split()) for a string s, read from offset a; after tells whether
\* a word has been read already, gap whether whitespace follows it
RECURSIVE JoinWords(_, _, _, _)
JoinWords(s, a, after, gap) ==
    IF a >= Len(s) THEN ""
    ELSE IF CharAt(s, a) \in Whitespace THEN JoinWords(s, a + 1, after, after)
    ELSE (IF gap THEN "_" ELSE "") \o CharAt(s, a) \o JoinWords(s, a + 1, TRUE, FALSE)

\* s with "/" replaced by " "
RECURSIVE ReplaceSep(_)
ReplaceSep(s) ==
    IF s = "" THEN ""
    ELSE (IF CharAt(s, 0) = "/" THEN " " ELSE CharAt(s, 0)) \o ReplaceSep(Slice(s, 1, Len(s)))

\* s without the characters that are not in keep
RECURSIVE Keep(_, _)
Keep(s, keep) ==
    IF s = "" THEN ""
    ELSE (IF CharAt(s, 0) \in keep THEN CharAt(s, 0) ELSE "") \o Keep(Slice(s, 1, Len(s)), keep)

\* s.strip("._")
RECURSIVE StripChars(_, _)
StripChars(s, chars) ==
    IF s = "" THEN ""
    ELSE IF CharAt(s, 0) \in chars THEN StripChars(Slice(s, 1, Len(s)), chars)
    ELSE IF CharAt(s, Len(s) - 1) \in chars THEN StripChars(Slice(s, 0, Len(s) - 1), chars)
    ELSE s

\* werkzeug's secure_filename, for a name of ASCII characters
secure_filename(name) ==
    StripChars(Keep(JoinWords(ReplaceSep(name), 0, FALSE, FALSE), FilenameChars), {".", "_"})

\* len(s.split())
RECURSIVE WordCount(_, _, _)
WordCount(s, a, inword) ==
    IF a >= Len(s) THEN 0
    ELSE IF CharAt(s, a) \in Whitespace THEN WordCount(s, a + 1, FALSE)
    ELSE (IF inword THEN 0 ELSE 1) + WordCount(s, a + 1, TRUE)

----------------------------------------------------------------------------
(* /api/analyze: what is uploaded.  An upload is the request as Flask sees  *)
(* it: length is its Content-Length, has_file tells whether it has a part  *)
(* named file, filename is the name of that part.  The content of the file *)
(* is kept as its format and the text it carries: a PDF or DOCX with that  *)
(* text on its pages, a UTF-8 "txt", or "binary" (no document, no UTF-8).  *)

MAX_CONTENT_LENGTH == 16 * 1024 * 1024

\* the fewest characters a text must have, stripped, to be analysed
MinTextLength == 50

\* the text of the integration test, long enough
SampleText == "This is a sample contract text with sufficient length for analysis."

\* a text of MinTextLength characters between whitespace
EnoughText == " \n The parties agree to the terms set out in annex A.\n"

\* a text of one character less between whitespace
AlmostText == " \n The parties agree to the terms set out in annex B\n"

UploadTexts == {SampleText, EnoughText, AlmostText, "Short", "", " \n "}

Filenames ==
    {"contract.pdf", "Deal.DOCX", "old.doc", "my notes.txt", "test.exe", "",
     "README", ".pdf", "scan.PDF"}

Upload(has_file, name, length, format, content) ==
    [has_file |-> has_file, filename |-> name, length |-> length,
     format |-> format, text |-> content]

Uploads ==
    {Upload(FALSE, "", l, "binary", "") : l \in {0, 2048}}
    \cup {Upload(TRUE, f, 2048, k, t) :
              f \in Filenames, k \in {"pdf", "docx", "txt"}, t \in UploadTexts}
    \cup {Upload(TRUE, f, 2048, "binary", "") : f \in Filenames}
    \cup {Upload(h, f, l, "pdf", SampleText) :
              h \in BOOLEAN, f \in {"large.pdf", "test.exe"},
              l \in {MAX_CONTENT_LENGTH, MAX_CONTENT_LENGTH + 1, 17 * 1024 * 1024 + 2048}}

\* the file contents the extractors are given: besides the formats of the
\* uploads, a "damaged" PDF or DOCX that the library opens and then fails on
Contents ==
    {[format |-> k, text |-> t] :
        k \in {"pdf", "docx", "txt", "binary", "damaged"}, t \in UploadTexts}

\* what a try block came to: an exception, or a value (None: <<>>)
Raised == [raised |-> TRUE, value |-> <<>>]

Value(v) == [raised |-> FALSE, value |-> v]

\* Caught that lets the exception pass to the caller
Caught_Reraise(r) == r

\* try: ... except Exception: return None
Caught(r) == IF r.raised THEN Value(<<>>) ELSE r

\* the try block of extract_text_from_pdf: PyPDF2 raises for a file that is no
\* PDF and in extract_text for a damaged one, else the stripped text of the
\* pages is returned
PdfBody(file_content) ==
    IF file_content.format = "pdf" THEN Value(<<Strip(file_content.text)>>) ELSE Raised

\* the try block of extract_text_from_docx
DocxBody(file_content) ==
    IF file_content.format = "docx" THEN Value(<<Strip(file_content.text)>>) ELSE Raised

\* extract_text_from_pdf as its caller sees it
PdfCall(file_content) == Caught(PdfBody(file_content))

\* extract_text_from_docx as its caller sees it
DocxCall(file_content) == Caught(DocxBody(file_content))

\* extract_text_from_pdf: the stripped text of the pages, or None (<<>>)
extract_text_from_pdf(file_content) == PdfCall(file_content).value

\* extract_text_from_docx: the stripped text of the paragraphs, or None
extract_text_from_docx(file_content) == DocxCall(file_content).value

\* file_content.decode('utf-8') raises UnicodeDecodeError
DecodeRaises(file_content) == file_content.format # "txt"

\* file_content.decode('utf-8')
decode(file_content) == <<file_content.text>>

\* What the API of the language model does with a request: it answers 200
\* with a content ("ok"), answers 200 with a body that lacks the content
\* ("malformed"), answers another status ("status"), or requests.post raises
\* ("raises": no connection, timeout).
Api(kind, status_code, content) ==
    [kind |-> kind, status_code |-> status_code, content |-> content]

ApiOutcomes ==
    {Api("ok", 200, "## Contract Type & Purpose\nThis is a test contract."),
     Api("ok", 200, "Contract explanation"),
     Api("ok", 200, ""),
     Api("malformed", 200, ""),
     Api("raises", 0, "")}
    \cup {Api("status", c, "API Error") : c \in {201, 400, 401, 429, 500, 503}}

\* the try block of explain_contract: the content for status 200, None for
\* another status; requests.post raises, and so does reading the content of a
\* body that lacks it
ApiBody(api) ==
    IF api.kind \in {"raises", "malformed"} THEN Raised
    ELSE IF api.status_code = 200 THEN Value(<<api.content>>)
    ELSE Value(<<>>)

\* explain_contract as its caller sees it
ExplainCall(api) == Caught(ApiBody(api))

\* explain_contract: the content of the answer, or None
explain_contract(api) == ExplainCall(api).value

\* Insufficient that measures the text with its surrounding whitespace
Insufficient_Unstripped(t) == t = <<>> \/ t[1] = "" \/ Len(t[1]) < MinTextLength

\* not text or len(text.strip()) < 50
Insufficient(t) == t = <<>> \/ t[1] = "" \/ Len(Strip(t[1])) < MinTextLength

\* Unanalyzed that takes an empty analysis for an analysis
Unanalyzed_NoneOnly(a) == a = <<>>

\* not analysis
Unanalyzed(a) == a = <<>> \/ a[1] = ""

----------------------------------------------------------------------------
(* /api/analyze: analyze_contract, one request per behaviour *)

\* NoFile that takes every request to carry the part
NoFile_Never(u) == FALSE

\* 'file' not in request.files
NoFile(u) == ~u.has_file

\* Success without the name of the file and the number of words
Success_Bare(name, a, t) == [success |-> TRUE, analysis |-> a]

\* the body of the answer for an analysed contract
Success(name, a, t) ==
    [success |-> TRUE, filename |-> name, analysis |-> a,
     word_count |-> WordCount(t, 0, FALSE)]

\* the answer of the except branch of analyze_contract
ProcessingError ==
    [status |-> 500,
     body |-> [error |-> "An error occurred while processing your file. Please try again."]]

\* analyze_contract, or Flask in its place, answers the request
Respond(status, body) ==
    /\ reply' = <<[status |-> status, body |-> body]>>
    /\ step' = "done"

\* POST /api/analyze, up to the try block.  Reading request.files makes Flask
\* parse the form: it raises RequestEntityTooLarge for a request longer than
\* MAX_CONTENT_LENGTH, which the handler too_large of error 413 answers.
AnalyzeContract(u) ==
    /\ step = "idle"
    /\ upload' = <<u>>
    /\ IF u.length > MAX_CONTENT_LENGTH
       THEN /\ Respond(413, [error |-> "File too large. Please upload files smaller than 16MB."])
            /\ UNCHANGED filename
       ELSE IF NoFile(u)
       THEN /\ Respond(400, [error |-> "No file uploaded"])
            /\ UNCHANGED filename
       ELSE IF ~allowed_file(u.filename)
       THEN /\ Respond(400, [error |-> "File type not allowed"])
            /\ UNCHANGED filename
       ELSE /\ filename' = secure_filename(u.filename)
            /\ step' = "extract"
            /\ UNCHANGED reply
    /\ UNCHANGED <<extracted_text, analysis, extractions, llm_calls>>
    /\ UNCHANGED <<detector_vars, calls, invalid, side_vars>>

\* the branch elif file_extension in ['docx', 'doc'] is the one taken
UsesDocx(name) ==
    /\ HasDot(name)
    /\ LowerStr(Extension(name)) \in {"docx", "doc"}
    /\ ~EndsWith(LowerStr(name), ".pdf")

\* try: text = extract_text_from_docx(file_content)
\* except: text = extract_text_from_pdf(file_content)
\* the text, and the number of extractions that ran for it
DocxOrPdf(file_content) ==
    IF DocxCall(file_content).raised
    THEN [text |-> extract_text_from_pdf(file_content), runs |-> 2]
    ELSE [text |-> DocxCall(file_content).value, runs |-> 1]

\* the extraction chosen by the extension of filename; rsplit('.', 1)[1] raises
\* IndexError for a name without ".", decode raises for a file that is no
\* UTF-8, and the except branch answers for both
Extract ==
    /\ step = "extract"
    /\ IF ~HasDot(filename)
       THEN /\ Respond(ProcessingError.status, ProcessingError.body)
            /\ UNCHANGED <<extracted_text, extractions>>
       ELSE LET file_content == upload[1]
                file_extension == LowerStr(Extension(filename))
            IN  /\ extractions' = extractions +
                       (IF UsesDocx(filename) THEN DocxOrPdf(file_content).runs ELSE 1)
                /\ IF file_extension = "pdf" \/ EndsWith(LowerStr(filename), ".pdf")
                   THEN /\ extracted_text' = extract_text_from_pdf(file_content)
                        /\ step' = "check"
                        /\ UNCHANGED reply
                   ELSE IF file_extension \in {"docx", "doc"}
                   THEN /\ extracted_text' = DocxOrPdf(file_content).text
                        /\ step' = "check"
                        /\ UNCHANGED reply
                   ELSE IF file_extension = "txt"
                   THEN IF DecodeRaises(file_content)
                        THEN /\ Respond(ProcessingError.status, ProcessingError.body)
                             /\ UNCHANGED extracted_text
                        ELSE /\ extracted_text' = decode(file_content)
                             /\ step' = "check"
                             /\ UNCHANGED reply
                   ELSE /\ extracted_text' = extract_text_from_pdf(file_content)
                        /\ step' = "check"
                        /\ UNCHANGED reply
    /\ UNCHANGED <<upload, filename, analysis, llm_calls>>
    /\ UNCHANGED <<detector_vars, calls, invalid, side_vars>>

\* if not text or len(text.strip()) < 50
CheckText ==
    /\ step = "check"
    /\ IF Insufficient(extracted_text)
       THEN Respond(400, [error |-> "Could not extract enough text from the document. Please ensure the file contains readable text."])
       ELSE step' = "explain" /\ UNCHANGED reply
    /\ UNCHANGED <<upload, filename, extracted_text, analysis, extractions, llm_calls>>
    /\ UNCHANGED <<detector_vars, calls, invalid, side_vars>>

\* analysis = explain_contract(text), and the answer that follows
Explain(api) ==
    /\ step = "explain"
    /\ llm_calls' = llm_calls + 1
    /\ analysis' = explain_contract(api)
    /\ IF Unanalyzed(explain_contract(api))
       THEN Respond(500, [error |-> "Failed to analyze the contract. Please try again."])
       ELSE Respond(200, Success(filename, explain_contract(api)[1], extracted_text[1]))
    /\ UNCHANGED <<upload, filename, extracted_text, extractions>>
    /\ UNCHANGED <<detector_vars, calls, invalid, side_vars>>

NextUpload ==
    \/ \E u \in Uploads : AnalyzeContract(u)
    \/ Extract
    \/ CheckText
    \/ \E api \in ApiOutcomes : Explain(api)

SpecUpload == Init /\ [][NextUpload]_vars

----------------------------------------------------------------------------
(* The helpers called on their own, as the unit tests call them *)

\* a call of helper name with a file content or an outcome of the API
HelperCall(name, file, api) ==
    [name |-> name, file |-> file, api |-> api, state |-> "running", value |-> <<>>]

HelperCalls ==
    {HelperCall(n, <<c>>, <<>>) :
        n \in {"extract_text_from_pdf", "extract_text_from_docx"}, c \in Contents}
    \cup {HelperCall("explain_contract", <<>>, <<a>>) : a \in ApiOutcomes}

\* the helper is entered
CallHelper(h) ==
    /\ helper_call = <<>>
    /\ helper_call' = <<h>>
    /\ UNCHANGED <<detector_vars, calls, invalid, upload_vars, monitor_vars>>

\* what the caller of the helper gets
HelperOutcome(h) ==
    IF h.name = "extract_text_from_pdf" THEN PdfCall(h.file[1])
    ELSE IF h.name = "extract_text_from_docx" THEN DocxCall(h.file[1])
    ELSE ExplainCall(h.api[1])

\* the helper is left, with a value or with an exception
LeaveHelper ==
    /\ helper_call # <<>>
    /\ helper_call[1].state = "running"
    /\ LET r == HelperOutcome(helper_call[1])
       IN  helper_call' =
               <<[helper_call[1] EXCEPT !.state = IF r.raised THEN "raised" ELSE "returned",
                                        !.value = r.value]>>
    /\ UNCHANGED <<detector_vars, calls, invalid, upload_vars, monitor_vars>>

NextHelpers ==
    \/ \E h \in HelperCalls : CallHelper(h)
    \/ LeaveHelper

SpecHelpers == Init /\ [][NextHelpers]_vars

----------------------------------------------------------------------------
(* monitoring.py: ApplicationMonitor, its hooks around every request, its *)
(* error handler and /health/detailed                                     *)

\* how many entries of response_times record_metrics keeps
MaxResponseTimes == 1000

\* how many entries of errors handle_exception keeps
MaxErrors == 100

\* for how many minutes an error counts as recent
RecentMinutes == 5

\* how many requests arrive in one behaviour
MaxRequests == 2

\* until when the clock is followed, in minutes
MaxClock == 5

\* list[-n:]
Last(list, n) == SubSeq(list, Max(1, Len(list) - n + 1), Len(list))

\* if len(list) > n: list = list[-n:]
Trimmed(list, n) == IF Len(list) > n THEN Last(list, n) ELSE list

\* error_info of handle_exception, as far as the monitor reads it again
ErrorInfo(id, now) == [timestamp |-> now, request_id |-> id]

\* what psutil reports, and the zeros of get_system_metrics when it raises
Readings ==
    {[cpu_percent |-> c, memory_percent |-> 40, disk_percent |-> d] :
        c \in {12, 81}, d \in {50, 91}}
    \cup {[cpu_percent |-> 12, memory_percent |-> 86, disk_percent |-> 50],
          [cpu_percent |-> 0, memory_percent |-> 0, disk_percent |-> 0]}

\* a request: the endpoint that the route gives it ("": no route), whether
\* its view raises an exception that has no handler of its own, the status
\* its view or the handler of its HTTP error answers with, and for
\* /health/detailed what get_system_metrics reads
Request(endpoint, raises, status, readings) ==
    [endpoint |-> endpoint, raises |-> raises, status |-> status, readings |-> readings]

Requests ==
    {Request("index", FALSE, 200, <<>>),
     Request("index", TRUE, 500, <<>>),
     Request("", FALSE, 404, <<>>),
     Request("metrics", FALSE, 200, <<>>)}
    \cup {Request("analyze_contract", FALSE, s, <<>>) : s \in {200, 400, 413, 500}}
    \cup {Request("detailed_health", FALSE, 200, <<r>>) : r \in Readings}

\* the state of the monitor after n requests that were handled one after the
\* other, the last r of which raised in their view: n - r answers of index and
\* r answers of handle_exception, all at time 0.  A response time is written
\* as the number of its request.
Prior(n, r) ==
    [requests_total |-> n,
     requests_successful |-> n - r,
     requests_failed |-> r,
     uploads_total |-> 0,
     analysis_total |-> 0,
     analysis_errors |-> 0,
     response_times |-> Last([k \in 1 .. n |-> k], MaxResponseTimes),
     errors |-> Last([k \in 1 .. r |-> ErrorInfo(n - r + k, 0)], MaxErrors)]

\* the runs before the behaviour starts, as <<n, r>>
Histories ==
    {<<0, 0>>, <<10, 1>>, <<10, 2>>, <<11, 11>>,
     <<MaxResponseTimes - 1, MaxErrors - 1>>,
     <<MaxResponseTimes + 200, MaxErrors>>}

\* a server whose monitor was constructed and that has handled the requests
\* of one of the histories
Started(histories) ==
    /\ Loaded
    /\ invalid = {}
    /\ \E h \in histories :
          /\ metrics = Prior(h[1], h[2])
          /\ traffic = [base |-> h[1], arrived |-> h[1], completed |-> h[1],
                        timed |-> [k \in 1 .. h[1] |-> k],
                        raised |-> [k \in 1 .. h[2] |-> h[1] - h[2] + k]]
    /\ start_time = <<>>
    /\ clock = 0
    /\ threads = [t \in Threads |-> Idle]
    /\ health = <<>>

InitMonitor == Started(Histories)

\* setup_startup_time()
SetupStartupTime ==
    /\ start_time = <<>>
    /\ start_time' = <<clock>>
    /\ UNCHANGED <<metrics, clock, traffic, threads, health>>
    /\ UNCHANGED <<detector_vars, calls, invalid, upload_vars, helper_call>>

\* time passes
Tick ==
    /\ clock + RecentMinutes <= MaxClock
    /\ clock' = clock + RecentMinutes
    /\ UNCHANGED <<metrics, start_time, traffic, threads, health>>
    /\ UNCHANGED <<detector_vars, calls, invalid, upload_vars, helper_call>>

\* before_request: start_timer.  The thread takes the request.
StartTimer(t, req) ==
    /\ threads[t].pc = "idle"
    /\ traffic.arrived < traffic.base + MaxRequests
    /\ traffic' = [traffic EXCEPT !.arrived = @ + 1]
    /\ threads' = [threads EXCEPT ![t] =
           [Idle EXCEPT !.pc = "view", !.id = traffic.arrived + 1,
                        !.endpoint = req.endpoint, !.raises = req.raises,
                        !.status = req.status, !.readings = req.readings]]
    /\ UNCHANGED <<metrics, start_time, clock, health>>
    /\ UNCHANGED <<detector_vars, calls, invalid, upload_vars, helper_call>>

\* the errors of the last five minutes
RecentErrors(errors, now) ==
    LET Recent(e) == e.timestamp > now - RecentMinutes
    IN  SelectSeq(errors, Recent)

\* failed / total > 0.1
HighErrorRate(m) ==
    m.requests_total > 0 /\ 10 * m.requests_failed > m.requests_total

\* detailed_health: health_status, as the checks assign it one after the other
HealthStatus(system_metrics, app_metrics, now) ==
    LET cpu == IF system_metrics.cpu_percent > 80 THEN "degraded" ELSE "healthy"
        memory == IF system_metrics.memory_percent > 85 THEN "degraded" ELSE cpu
        disk == IF system_metrics.disk_percent > 90 THEN "degraded" ELSE memory
        rate == IF HighErrorRate(app_metrics) THEN "unhealthy" ELSE disk
    IN  IF Len(RecentErrors(app_metrics.errors, now)) > 10 THEN "degraded" ELSE rate

\* detailed_health: issues
Issues(system_metrics, app_metrics, now) ==
    (IF system_metrics.cpu_percent > 80 THEN <<"High CPU usage">> ELSE <<>>)
    \o (IF system_metrics.memory_percent > 85 THEN <<"High memory usage">> ELSE <<>>)
    \o (IF system_metrics.disk_percent > 90 THEN <<"Low disk space">> ELSE <<>>)
    \o (IF HighErrorRate(app_metrics) THEN <<"High error rate">> ELSE <<>>)
    \o (IF Len(RecentErrors(app_metrics.errors, now)) > 10
        THEN <<"Frequent recent errors">> ELSE <<>>)

\* the body that detailed_health returns when start_time is set
HealthBody(system_metrics, app_metrics, now, started) ==
    [status |-> HealthStatus(system_metrics, app_metrics, now),
     version |-> "1.0.0",
     issues |-> Issues(system_metrics, app_metrics, now),
     requests_total |-> app_metrics.requests_total,
     requests_failed |-> app_metrics.requests_failed,
     uptime_seconds |-> (now - started) * 60]

\* handle_exception: the error is stored, the list is cut to its last 100
\* entries, and the answer is 500
Stored(errors, id, now) == Trimmed(Append(errors, ErrorInfo(id, now)), MaxErrors)

Unexpected(id) ==
    [status |-> 500,
     body |-> [error |-> "An unexpected error occurred. Please try again.",
               request_id |-> id]]

\* The view of the request, and the error handler when the view raises.
\* detailed_health reads self.start_time when it builds its answer: an
\* AttributeError when the attribute was never set.
View(t) ==
    LET r == threads[t]
        failed == r.raises \/ (r.endpoint = "detailed_health" /\ start_time = <<>>)
    IN  /\ r.pc = "view"
        /\ metrics' = IF failed
                      THEN [metrics EXCEPT !.errors = Stored(@, r.id, clock)]
                      ELSE metrics
        /\ threads' = [threads EXCEPT ![t] =
               [r EXCEPT !.pc = "append", !.status = IF failed THEN 500 ELSE r.status]]
        /\ health' = IF r.endpoint # "detailed_health" THEN health
                     ELSE IF failed THEN <<Unexpected(r.id)>>
                     ELSE <<[status |-> 200,
                             body |-> HealthBody(r.readings[1], metrics, clock,
                                                 start_time[1])]>>
        /\ traffic' = IF failed THEN [traffic EXCEPT !.raised = Append(@, r.id)]
                      ELSE traffic
        /\ UNCHANGED <<start_time, clock>>
        /\ UNCHANGED <<detector_vars, calls, invalid, upload_vars, helper_call>>

\* after_request: record_metrics, self.metrics['response_times'].append(...)
AppendTime(t) ==
    LET r == threads[t]
    IN  /\ r.pc = "append"
        /\ metrics' = [metrics EXCEPT !.response_times = Append(@, r.id)]
        /\ threads' = [threads EXCEPT ![t] = [r EXCEPT !.pc = "measure"]]
        /\ traffic' = [traffic EXCEPT !.timed = Append(@, r.id)]
        /\ UNCHANGED <<start_time, clock, health>>
        /\ UNCHANGED <<detector_vars, calls, invalid, upload_vars, helper_call>>

\* record_metrics: if len(self.metrics['response_times']) > 1000
MeasureTimes(t) ==
    LET r == threads[t]
    IN  /\ r.pc = "measure"
        /\ threads' = [threads EXCEPT ![t] =
               [r EXCEPT !.pc = IF Len(metrics.response_times) > MaxResponseTimes
                                THEN "slice" ELSE "load",
                         !.at = 1]]
        /\ UNCHANGED <<metrics, start_time, clock, traffic, health>>
        /\ UNCHANGED <<detector_vars, calls, invalid, upload_vars, helper_call>>

\* record_metrics: self.metrics['response_times'][-1000:] is evaluated
SliceTimes(t) ==
    LET r == threads[t]
    IN  /\ r.pc = "slice"
        /\ threads' = [threads EXCEPT ![t] =
               [r EXCEPT !.pc = "cut", !.kept = Last(metrics.response_times, MaxResponseTimes)]]
        /\ UNCHANGED <<metrics, start_time, clock, traffic, health>>
        /\ UNCHANGED <<detector_vars, calls, invalid, upload_vars, helper_call>>

\* record_metrics: the slice is assigned to self.metrics['response_times']
CutTimes(t) ==
    LET r == threads[t]
    IN  /\ r.pc = "cut"
        /\ metrics' = [metrics EXCEPT !.response_times = r.kept]
        /\ threads' = [threads EXCEPT ![t] = [r EXCEPT !.pc = "load", !.kept = <<>>]]
        /\ UNCHANGED <<start_time, clock, traffic, health>>
        /\ UNCHANGED <<detector_vars, calls, invalid, upload_vars, helper_call>>

\* record_metrics: the counters that the request adds 1 to, in their order
Counters(r) ==
    <<"requests_total",
      IF r.status < 400 THEN "requests_successful" ELSE "requests_failed">>
    \o (IF r.endpoint = "analyze_contract"
        THEN <<"uploads_total",
               IF r.status = 200 THEN "analysis_total" ELSE "analysis_errors">>
        ELSE <<>>)

\* self.metrics[name] = value + 1, value being what the thread has read
Bumped(m, name, value) == [m EXCEPT ![name] = value + 1]

\* record_metrics: self.metrics[name] += 1 reads the counter ...
Load(t) ==
    LET r == threads[t]
    IN  /\ r.pc = "load"
        /\ threads' = [threads EXCEPT ![t] =
               [r EXCEPT !.pc = "store", !.value = metrics[Counters(r)[r.at]]]]
        /\ UNCHANGED <<metrics, start_time, clock, traffic, health>>
        /\ UNCHANGED <<detector_vars, calls, invalid, upload_vars, helper_call>>

\* ... and writes it back, one more
Store(t) ==
    LET r == threads[t]
    IN  /\ r.pc = "store"
        /\ metrics' = Bumped(metrics, Counters(r)[r.at], r.value)
        /\ threads' = [threads EXCEPT ![t] =
               [r EXCEPT !.pc = IF r.at = Len(Counters(r)) THEN "return" ELSE "load",
                         !.at = r.at + 1, !.value = 0]]
        /\ UNCHANGED <<start_time, clock, traffic, health>>
        /\ UNCHANGED <<detector_vars, calls, invalid, upload_vars, helper_call>>

\* record_metrics: return response.  The request is completed.
Complete(t) ==
    /\ threads[t].pc = "return"
    /\ threads' = [threads EXCEPT ![t] = Idle]
    /\ traffic' = [traffic EXCEPT !.completed = @ + 1]
    /\ UNCHANGED <<metrics, start_time, clock, health>>
    /\ UNCHANGED <<detector_vars, calls, invalid, upload_vars, helper_call>>

\* a step of thread t, which takes its requests from reqs
ThreadStep(t, reqs) ==
    \/ \E req \in reqs : StartTimer(t, req)
    \/ View(t)
    \/ AppendTime(t)
    \/ MeasureTimes(t)
    \/ SliceTimes(t)
    \/ CutTimes(t)
    \/ Load(t)
    \/ Store(t)
    \/ Complete(t)

\* The server handles one request after the other, in its first thread.
\* Between two requests time may pass, and the program that has constructed
\* the monitor may call setup_startup_time.
NextMonitor ==
    \/ ThreadStep(1, Requests)
    \/ threads[1].pc = "idle" /\ SetupStartupTime
    \/ threads[1].pc = "idle" /\ Tick

SpecMonitor == InitMonitor /\ [][NextMonitor]_vars

\* the threads of the server handle requests at the same time (gunicorn
\* --threads 4 in the deploy scripts)
ThreadRequests ==
    {Request("index", FALSE, 200, <<>>),
     Request("index", TRUE, 500, <<>>),
     Request("analyze_contract", FALSE, 200, <<>>),
     Request("analyze_contract", FALSE, 500, <<>>)}

ThreadHistories == {<<0, 0>>, <<MaxResponseTimes + 200, MaxErrors>>}

InitThreads == Started(ThreadHistories)

NextThreads == \E t \in Threads : ThreadStep(t, ThreadRequests)

SpecThreads == InitThreads /\ [][NextThreads]_vars

----------------------------------------------------------------------------
(* The claims *)

\* the arguments of the detector are a str and a list of names
WellTyped ==
    caller = "handler" =>
        /\ request # <<>>
        /\ request[1].text_kind = "string"
        /\ request[1].types_kind \in {"absent", "array"}
        /\ request[1].unhashable = {}

\* the detector was called and has returned
DetectorReturned == pc = "done" /\ invoked /\ results # <<>>

\* the list the detector returned
ReturnedList == results[1].detected_clauses

KnownCategory(c) == c \in DOMAIN patterns

\* the number of matches of the rules of category c in text t
RECURSIVE CountRules(_, _, _)
CountRules(t, c, i) ==
    IF i > Len(patterns[c]) THEN 0
    ELSE Len(finditer(patterns[c][i][1], t)) + CountRules(t, c, i + 1)

\* the number of all matches found for the list types, from entry i on
RECURSIVE CountFrom(_, _, _)
CountFrom(t, types, i) ==
    IF i > Len(types) THEN 0
    ELSE (IF KnownCategory(types[i]) THEN CountRules(t, types[i], 1) ELSE 0)
         + CountFrom(t, types, i + 1)

MatchCount(t, types) == CountFrom(t, types, 1)

\* C1: the returned list has min(15, n) entries and total_found is n, the number
\* of all matches found; so the list has at most 15 entries, total_found is at
\* least its length, and greater exactly when more than 15 matches were found.
C1_CapAndTotal ==
    DetectorReturned =>
        LET n == MatchCount(text, clause_types)
        IN  /\ Len(ReturnedList) = Min(15, n)
            /\ results[1].total_found = n
            /\ Len(ReturnedList) <= 15
            /\ results[1].total_found >= Len(ReturnedList)
            /\ (results[1].total_found > Len(ReturnedList)) <=> (n > 15)

\* more than 15 matches were found and the list was cut
C1_Witness ==
    /\ DetectorReturned
    /\ MatchCount(text, clause_types) > 15
    /\ Len(ReturnedList) = 15
    /\ results[1].total_found > 15

\* the entries of the rules of category c from rule i on, each rule's matches
\* in the order of their start
RECURSIVE ExpectedRules(_, _, _)
ExpectedRules(t, c, i) ==
    IF i > Len(patterns[c]) THEN <<>>
    ELSE RuleEntries(t, c, patterns[c][i]) \o ExpectedRules(t, c, i + 1)

\* the sequence built by visiting the categories in the order given
RECURSIVE ExpectedFrom(_, _, _)
ExpectedFrom(t, types, i) ==
    IF i > Len(types) THEN <<>>
    ELSE (IF KnownCategory(types[i]) THEN ExpectedRules(t, types[i], 1) ELSE <<>>)
         \o ExpectedFrom(t, types, i + 1)

Expected(t, types) == ExpectedFrom(t, types, 1)

\* the matches of every rule come in ascending order of their start
Ascending(t) ==
    \A r \in Regexes :
        LET ms == finditer(r, t)
        IN  \A j, k \in 1 .. Len(ms) : j < k => ms[j].start < ms[k].start

\* C2: the returned list is the first min(15, n) entries of the sequence built
\* by visiting the requested categories in the order given, the rules of a
\* category in declaration order and the matches of a rule in ascending start
\* position; nothing is sorted across categories.
C2_OrderAndPrefix ==
    DetectorReturned =>
        /\ ReturnedList = Take(Expected(text, clause_types), 15)
        /\ Ascending(text)

\* a returned list over two categories that is sorted neither by confidence nor
\* by position
C2_Witness ==
    /\ DetectorReturned
    /\ \E j, k \in 1 .. Len(ReturnedList) :
          /\ j < k
          /\ ReturnedList[j].type # ReturnedList[k].type
          /\ ReturnedList[j].confidence < ReturnedList[k].confidence
    /\ \E j, k \in 1 .. Len(ReturnedList) :
          /\ j < k
          /\ ReturnedList[j].position > ReturnedList[k].position

\* entry m is what some rule of its type matched in the text: the span of one of
\* the rule's matches, with the rule's confidence and risk
FromRule(t, m, rule) ==
    /\ m.confidence = rule[2]
    /\ m.risk_level = rule[3]
    /\ \E k \in 1 .. Len(finditer(rule[1], t)) :
          /\ finditer(rule[1], t)[k].start = m.position
          /\ finditer(rule[1], t)[k].end = m.position + Len(m.text)

\* C3: every returned match's position is the zero-based offset at which the
\* match starts in the input text, and 0 <= position < len(text).
C3_Position ==
    DetectorReturned =>
        \A k \in 1 .. Len(ReturnedList) :
            LET m == ReturnedList[k]
            IN  /\ 0 <= m.position
                /\ m.position < Len(text)
                /\ m.position + Len(m.text) <= Len(text)
                /\ Slice(text, m.position, m.position + Len(m.text)) = m.text
                /\ KnownCategory(m.type)
                /\ \E i \in 1 .. Len(patterns[m.type]) :
                      \E j \in 1 .. Len(finditer(patterns[m.type][i][1], text)) :
                          finditer(patterns[m.type][i][1], text)[j].start = m.position

\* a match at offset 0 and a match further on are returned
C3_Witness ==
    /\ DetectorReturned
    /\ \E k \in 1 .. Len(ReturnedList) : ReturnedList[k].position = 0
    /\ \E k \in 1 .. Len(ReturnedList) : ReturnedList[k].position > 50

\* C4: every returned match carries the confidence and the risk_level the table
\* declares for the rule that produced it under the match's type; the
\* confidence lies in [0,1] (0..100 hundredths) and the risk_level is low,
\* medium or high.
C4_ConfidenceAndRisk ==
    DetectorReturned =>
        \A k \in 1 .. Len(ReturnedList) :
            LET m == ReturnedList[k]
            IN  /\ KnownCategory(m.type)
                /\ \E i \in 1 .. Len(patterns[m.type]) :
                      FromRule(text, m, patterns[m.type][i])
                /\ 0 <= m.confidence
                /\ m.confidence <= 100
                /\ m.risk_level \in {"low", "medium", "high"}

\* matches of two rules of one category with different confidences, and matches
\* of two categories with different risk levels
C4_Witness ==
    /\ DetectorReturned
    /\ \E j, k \in 1 .. Len(ReturnedList) :
          /\ ReturnedList[j].type = ReturnedList[k].type
          /\ ReturnedList[j].confidence # ReturnedList[k].confidence
    /\ \E j, k \in 1 .. Len(ReturnedList) :
          ReturnedList[j].risk_level # ReturnedList[k].risk_level

\* every character of s is whitespace
AllWhitespace(s) == \A k \in 0 .. (Len(s) - 1) : CharAt(s, k) \in Whitespace

\* c is w without its leading and trailing whitespace
IsStripped(c, w) ==
    /\ c = "" \/ (CharAt(c, 0) \notin Whitespace /\ CharAt(c, Len(c) - 1) \notin Whitespace)
    /\ \E a \in 0 .. Len(w) :
          /\ a + Len(c) <= Len(w)
          /\ Slice(w, a, a + Len(c)) = c
          /\ AllWhitespace(Slice(w, 0, a))
          /\ AllWhitespace(Slice(w, a + Len(c), Len(w)))

\* the window of the match [s, e): text[max(0, s-50) : min(L, e+50)]
Window(t, s, e) == Slice(t, Max(0, s - 50), Min(Len(t), e + 50))

\* C5: for a returned match spanning [s,e) in a text of length L, the context is
\* text[max(0,s-50):min(L,e+50)] without its leading and trailing whitespace.
C5_Context ==
    DetectorReturned =>
        \A k \in 1 .. Len(ReturnedList) :
            LET m == ReturnedList[k]
            IN  IsStripped(m.context, Window(text, m.position, m.position + Len(m.text)))

\* a returned match whose window lies inside the text and loses whitespace at
\* both ends
C5_Witness ==
    /\ DetectorReturned
    /\ \E k \in 1 .. Len(ReturnedList) :
          LET m == ReturnedList[k]
              w == Window(text, m.position, m.position + Len(m.text))
          IN  /\ m.position > 50
              /\ m.position + Len(m.text) + 50 < Len(text)
              /\ CharAt(w, 0) \in Whitespace
              /\ CharAt(w, Len(w) - 1) \in Whitespace
              /\ Len(m.context) < Len(w)

\* the list types without the names that are no key of the table
KnownOnly(types) == SelectSeq(types, KnownCategory)

\* what the loop and the return make of the list types, from entry i on
RECURSIVE LoopFrom(_, _, _)
LoopFrom(t, types, i) ==
    IF i > Len(types) THEN <<>>
    ELSE Appended(t, types[i]) \o LoopFrom(t, types, i + 1)

\* the result of the detector for text t and list types
ResultFor(t, types) == Returned(LoopFrom(t, types, 1))

\* C6: a name that is no key of the rule table contributes no match and raises
\* no error: the result is the result for the list without the unknown names,
\* and the iteration over such a name goes on to the next entry with the list
\* of matches as it was.
C6_UnknownIgnored ==
    /\ [](DetectorReturned => results[1] = ResultFor(text, KnownOnly(clause_types)))
    /\ [][(pc = "scan" /\ idx < Len(clause_types)
           /\ ~KnownCategory(clause_types[idx + 1]))
          => (pc' = "scan" /\ idx' = idx + 1 /\ detected_clauses' = detected_clauses)]_vars

\* a returned call whose list has an unknown name between two categories that
\* both matched
C6_Witness ==
    /\ DetectorReturned
    /\ \E i, j, k \in 1 .. Len(clause_types) :
          /\ i < j /\ j < k
          /\ ~KnownCategory(clause_types[j])
          /\ KnownCategory(clause_types[i]) /\ CountRules(text, clause_types[i], 1) > 0
          /\ KnownCategory(clause_types[k]) /\ CountRules(text, clause_types[k], 1) > 0

\* C7: whenever no rule of any requested category matches, the detector returns
\* success true, an empty list and total_found 0; until then its list stays
\* empty.
C7_NoMatch ==
    (invoked /\ WellTyped /\ MatchCount(text, clause_types) = 0) =>
        /\ detected_clauses = <<>>
        /\ pc = "done" =>
              results = <<[detected_clauses |-> <<>>,
                           analysis_method |-> "enhanced_pattern_matching",
                           success |-> TRUE,
                           total_found |-> 0]>>

\* the detector has returned for an empty text and a list that names categories
C7_Witness ==
    /\ DetectorReturned
    /\ text = ""
    /\ Len(clause_types) > 1
    /\ \A i \in 1 .. Len(clause_types) : KnownCategory(clause_types[i])
    /\ results[1].success

\* C8: two calls with the same text and clause_types return the same results,
\* whatever calls lie between them, and a call leaves its inputs as they are.
C8_Idempotent ==
    /\ []((DetectorReturned /\ memo # <<>> /\ memo[1].text = text
           /\ memo[1].clause_types = clause_types)
          => results[1] = memo[1].results)
    /\ [][pc = "scan" => (text' = text /\ clause_types' = clause_types)]_vars

\* a call returns with the inputs of an earlier call, a call with other inputs
\* having returned between the two
C8_Witness ==
    /\ DetectorReturned
    /\ memo # <<>>
    /\ memo[1].between
    /\ memo[1].text = text
    /\ memo[1].clause_types = clause_types
    /\ results[1].total_found > 0

\* two entries are the same finding
SameFinding(a, b) ==
    /\ a.text = b.text
    /\ a.position = b.position
    /\ a.type = b.type
    /\ a.confidence = b.confidence
    /\ a.risk_level = b.risk_level

\* C9: no two entries of the returned list are the same finding.
C9_NoDuplicates ==
    DetectorReturned =>
        \A j, k \in 1 .. Len(ReturnedList) :
            j < k => ~SameFinding(ReturnedList[j], ReturnedList[k])

\* the body is a JSON object whose document_text is absent or empty
LacksText(body) ==
    /\ body.kind = "object"
    /\ \/ body.text_kind = "absent"
       \/ body.text_kind = "string" /\ body.document_text = ""

\* C10: a request whose document_text is absent or empty is answered with
\* status 400, and the detector is not called for it.
C10_NoTextRejected ==
    (caller = "handler" /\ request # <<>> /\ LacksText(request[1])) =>
        /\ pc = "done"
        /\ ~invoked
        /\ results = <<>>
        /\ response = <<[status |-> 400, body |-> [error |-> "No document text provided"]]>>

\* a request with an empty document_text and a clause_types list has been answered
C10_Witness ==
    /\ caller = "handler"
    /\ request # <<>>
    /\ request[1].kind = "object"
    /\ request[1].text_kind = "string"
    /\ request[1].document_text = ""
    /\ request[1].clause_types # <<>>
    /\ response # <<>>
    /\ response[1].status = 400

\* handling the request body raises an exception: the body is no JSON object,
\* or its document_text is truthy and clause_types is no iterable, one of its
\* elements is a list, or the text is a number and a category is scanned
ExceptionRaised(body) ==
    \/ body.kind # "object"
    \/ /\ body.text_kind \in {"string", "number"}
       /\ body.text_kind = "string" => body.document_text # ""
       /\ \/ body.types_kind \in {"null", "number"}
          \/ \E i \in 1 .. Len(body.clause_types) :
                \/ i \in body.unhashable
                \/ body.text_kind = "number" /\ KnownCategory(body.clause_types[i])

\* C11: every request to /analyze-clauses is answered, so no exception escapes
\* the handler; a request whose handling raises an exception is answered with
\* status 500 and the body {error, detected_clauses: []} and gets no results;
\* status 500 is given to no other request, and a scan that raises nothing
\* and finds nothing is answered with status 200, success true and an empty
\* list.
C11_FailureReported ==
    (caller = "handler" /\ pc = "done") =>
        /\ request # <<>>
        /\ response # <<>>
        /\ ExceptionRaised(request[1]) =>
              /\ response[1].status = 500
              /\ response[1].body = [error |-> "Analysis failed", detected_clauses |-> <<>>]
              /\ results = <<>>
        /\ response[1].status = 500 => ExceptionRaised(request[1])
        /\ (invoked /\ ~ExceptionRaised(request[1])) =>
              /\ response[1].status = 200
              /\ response[1].body = results[1]
              /\ response[1].body.success
              /\ response[1].body.total_found = 0 =>
                    response[1].body.detected_clauses = <<>>

\* the scan of a request had found matches when an element of clause_types
\* that is a list raised the exception, and the request was answered with 500
C11_Witness ==
    /\ caller = "handler"
    /\ pc = "done"
    /\ request # <<>>
    /\ request[1].unhashable # {}
    /\ idx > 0
    /\ detected_clauses # <<>>
    /\ response # <<>>
    /\ response[1].status = 500
    /\ response[1].body.detected_clauses = <<>>

\* C12: whatever the interleaving of the detector calls that run at the same
\* time, each call returns the result it returns when it runs alone, and on
\* its way its list is the list it has at that point when it runs alone.
C12_ConcurrentCalls ==
    \A c \in Callers :
        /\ calls[c].pc = "done" =>
              calls[c].results = <<ResultFor(calls[c].text, calls[c].clause_types)>>
        /\ calls[c].pc = "scan" =>
              calls[c].detected_clauses =
                  LoopFrom(calls[c].text, Take(calls[c].clause_types, calls[c].idx), 1)

\* two calls with different inputs have returned different results, each having
\* made a step while the other was inside its loop
C12_Witness ==
    /\ \A c \in Callers : calls[c].pc = "done"
    /\ \E c, d \in Callers :
          /\ c # d
          /\ calls[c].met /\ calls[d].met
          /\ calls[c].text # calls[d].text
          /\ calls[c].results[1].total_found > 0
          /\ calls[d].results[1].total_found > 0
          /\ calls[c].results # calls[d].results

\* sub occurs in t
Contains(t, sub) ==
    \E a \in 0 .. (Len(t) - Len(sub)) : Slice(t, a, a + Len(sub)) = sub

\* the list types names category c and nothing else
OnlyCategory(types, c) ==
    /\ types # <<>>
    /\ \A i \in 1 .. Len(types) : types[i] = c

\* C13: for a text that contains the governance sentence and the category
\* governance alone, the returned list has a match of type governance with
\* confidence 0.95 and risk_level high.
C13_GovernanceScenario ==
    (DetectorReturned /\ Contains(text, GovernanceSentence)
     /\ OnlyCategory(clause_types, "governance")) =>
        \E k \in 1 .. Len(ReturnedList) :
            /\ ReturnedList[k].type = "governance"
            /\ ReturnedList[k].confidence = 95
            /\ ReturnedList[k].risk_level = "high"

\* the sentence stands inside a longer text, the match of the first rule of
\* governance starts before the sentence and ends after it, and the list
\* was cut
C13_Witness ==
    /\ DetectorReturned
    /\ OnlyCategory(clause_types, "governance")
    /\ \E a \in 1 .. (Len(text) - Len(GovernanceSentence) - 1) :
          /\ Slice(text, a, a + Len(GovernanceSentence)) = GovernanceSentence
          /\ ReturnedList[1].position < a
          /\ ReturnedList[1].position + Len(ReturnedList[1].text)
                > a + Len(GovernanceSentence)
    /\ ReturnedList[1].confidence = 95
    /\ results[1].total_found > Len(ReturnedList)

\* C14: for a text that contains the drag-along phrase and the category
\* drag_along alone, the returned list has a match with confidence 0.95 and
\* risk_level high.
C14_DragAlongScenario ==
    (DetectorReturned /\ Contains(text, DragAlongPhrase)
     /\ OnlyCategory(clause_types, "drag_along")) =>
        \E k \in 1 .. Len(ReturnedList) :
            /\ ReturnedList[k].confidence = 95
            /\ ReturnedList[k].risk_level = "high"

\* the phrase stands inside a longer text and the only match is the one of
\* the first rule of drag_along
C14_Witness ==
    /\ DetectorReturned
    /\ clause_types = <<"drag_along">>
    /\ \E a \in 1 .. (Len(text) - Len(DragAlongPhrase) - 1) :
          Slice(text, a, a + Len(DragAlongPhrase)) = DragAlongPhrase
    /\ Len(ReturnedList) = 1
    /\ ReturnedList[1].type = "drag_along"
    /\ ReturnedList[1].confidence = 95
    /\ ReturnedList[1].risk_level = "high"

Answered == step = "done" /\ upload # <<>> /\ reply # <<>>

C17_InvalidFileType ==
    (Answered /\ upload[1].has_file /\ upload[1].length <= MAX_CONTENT_LENGTH
     /\ HasDot(upload[1].filename)
     /\ LowerStr(Extension(upload[1].filename)) \notin ALLOWED_EXTENSIONS) =>
        /\ reply[1].status = 400
        /\ Contains(reply[1].body.error, "Invalid file type")

\* C18: a POST to /api/analyze whose file is larger than MAX_CONTENT_LENGTH
\* (16MB) is answered with status 400.
C18_FileTooLarge ==
    (Answered /\ upload[1].has_file /\ upload[1].length > MAX_CONTENT_LENGTH) =>
        reply[1].status = 400

\* the extraction of the upload ended with an exception: a file named .txt
\* that is no UTF-8
ExtractionRaised ==
    /\ HasDot(filename)
    /\ LowerStr(Extension(filename)) = "txt"
    /\ upload[1].format # "txt"

\* the extraction has run and has given analyze_contract its text
Extracted == step \in {"check", "explain", "done"} /\ extractions > 0 /\ ~ExtractionRaised

\* the text is None, empty or shorter than 50 characters without its
\* surrounding whitespace
TooShort(t) == t = <<>> \/ Len(Strip(t[1])) < 50

C20_Analysed ==
    (Answered /\ Extracted /\ allowed_file(upload[1].filename)
     /\ ~TooShort(extracted_text) /\ llm_calls > 0
     /\ analysis # <<>> /\ analysis[1] # "") =>
        /\ reply[1].status = 200
        /\ {"success", "filename", "analysis", "word_count"} \subseteq DOMAIN reply[1].body
        /\ reply[1].body.success
        /\ reply[1].body.analysis = analysis[1]
        /\ reply[1].body.filename = filename
        /\ reply[1].body.word_count > 0

\* a DOCX whose name has a blank and capitals was analysed: the answer has
\* the secured name and the number of words of the text
C20_Witness ==
    /\ Answered
    /\ reply[1].status = 200
    /\ upload[1].format = "docx"
    /\ upload[1].text = EnoughText
    /\ reply[1].body.filename = "Deal.DOCX"
    /\ reply[1].body.word_count = 11
    /\ llm_calls = 1

\* C21: no helper raises to its caller.  extract_text_from_pdf and
\* extract_text_from_docx return None when the library fails on the file;
\* explain_contract returns None for every status other than 200 and when the
\* request raises, and what it returns otherwise is the content of an answer
\* with status 200.
C21_HelpersNeverRaise ==
    (helper_call # <<>> /\ helper_call[1].state # "running") =>
        LET h == helper_call[1]
        IN  /\ h.state = "returned"
            /\ (h.name = "extract_text_from_pdf" /\ h.file[1].format # "pdf") =>
                  h.value = <<>>
            /\ (h.name = "extract_text_from_docx" /\ h.file[1].format # "docx") =>
                  h.value = <<>>
            /\ h.name = "explain_contract" =>
                  /\ (h.api[1].status_code # 200 \/ h.api[1].kind = "raises") =>
                        h.value = <<>>
                  /\ h.value # <<>> =>
                        (h.api[1].status_code = 200 /\ h.value = <<h.api[1].content>>)

\* explain_contract has returned None for a request that raised
C21_Witness ==
    /\ helper_call # <<>>
    /\ helper_call[1].name = "explain_contract"
    /\ helper_call[1].api[1].kind = "raises"
    /\ helper_call[1].state = "returned"
    /\ helper_call[1].value = <<>>

\* the three guards of analyze_contract, read off the request and the text:
\* the part named file is there, its name has one of the four extensions,
\* the text has 50 characters and more without its surrounding whitespace
GuardsPassed ==
    /\ upload # <<>>
    /\ upload[1].has_file
    /\ HasDot(upload[1].filename)
    /\ LowerStr(Extension(upload[1].filename)) \in {"pdf", "docx", "doc", "txt"}
    /\ extractions > 0
    /\ extracted_text # <<>>
    /\ Len(Strip(extracted_text[1])) >= 50

\* C22: explain_contract is called at most once for a request, and only
\* after the three guards have passed in their order (the file part, the
\* extension, the length of the extracted text); a request that one of the
\* guards rejects ends without a call of explain_contract.
C22_OneCallAfterGuards ==
    /\ llm_calls <= 1
    /\ llm_calls > 0 => (GuardsPassed /\ step = "done")
    /\ step = "explain" => (GuardsPassed /\ llm_calls = 0)
    /\ (Answered /\ ~GuardsPassed) => llm_calls = 0
    /\ (Answered /\ reply[1].status \in {400, 413}) => llm_calls = 0

\* a request passed the three guards and explain_contract was called once
\* for it; the call failed
C22_Witness ==
    /\ Answered
    /\ GuardsPassed
    /\ llm_calls = 1
    /\ analysis = <<>>
    /\ reply[1].status = 500

\* explain_contract was called for the upload and gave None or an empty
\* analysis
AnalysisFailed == llm_calls > 0 /\ (analysis = <<>> \/ analysis[1] = "")

\* C23: when the text was extracted and explain_contract returns None or an
\* empty analysis, the answer has status 500 and the error 'Failed to analyze
\* the contract. Please try again.'; it is never a success body.
C23_AnalysisFailure ==
    (Extracted /\ ~TooShort(extracted_text) /\ AnalysisFailed) =>
        /\ Answered
        /\ reply[1].status = 500
        /\ DOMAIN reply[1].body = {"error"}
        /\ reply[1].body.error = "Failed to analyze the contract. Please try again."

\* the API answered 200 with an empty content for a text that was long
\* enough, and the request was answered with 500
C23_Witness ==
    /\ Answered
    /\ Extracted
    /\ ~TooShort(extracted_text)
    /\ llm_calls = 1
    /\ analysis = <<"">>
    /\ reply[1].status = 500

\* the library could not read the upload as a DOCX
DocxFailed == upload # <<>> /\ DocxBody(upload[1]).raised

\* C24: for an upload with the extension docx or doc whose DOCX extraction
\* fails, the PDF extraction is run on the same file content before the
\* request is answered for want of text: two extractions ran, and the text
\* the length guard saw is the one the PDF extraction gives.
C24_DocxFallsBackToPdf ==
    (Extracted /\ UsesDocx(filename) /\ DocxFailed) =>
        /\ extractions = 2
        /\ extracted_text = extract_text_from_pdf(upload[1])

\* how often the list names category c
Occurrences(types, c) == Cardinality({i \in 1 .. Len(types) : types[i] = c})

\* how many entries of the list name a category of the table
KnownCount(types) == Cardinality({i \in 1 .. Len(types) : KnownCategory(types[i])})

\* no category of the table is named twice
NamedOnce(types) == \A c \in DOMAIN patterns : Occurrences(types, c) <= 1

\* the entries of the list that rule i of category c has given
OfRule(list, c, i) ==
    {k \in 1 .. Len(list) :
        list[k].type = c /\ list[k].confidence = patterns[c][i][2]}

\* C25: a rule gives at most one match for a scan of the text, since each of
\* its ".*" is greedy under DOTALL and it ends in a literal.  So the entries a
\* rule has in the returned list are no more than the times its category is
\* named, total_found is at most 4 times the number of known names in
\* clause_types, and at most 20 when no category is named twice.
C25_OneMatchPerRule ==
    DetectorReturned =>
        /\ \A c \in DOMAIN patterns : \A i \in 1 .. Len(patterns[c]) :
              /\ Len(finditer(patterns[c][i][1], text)) <= 1
              /\ Cardinality(OfRule(ReturnedList, c, i)) <= Occurrences(clause_types, c)
        /\ results[1].total_found <= 4 * KnownCount(clause_types)
        /\ NamedOnce(clause_types) => results[1].total_found <= 20

\* the text has the drag-along phrase twice and every category was asked for
\* once: the first drag-along rule has given one match, which spans both
\* phrases
C25_Witness ==
    /\ DetectorReturned
    /\ text = TTwice
    /\ Len(clause_types) = 5
    /\ NamedOnce(clause_types)
    /\ results[1].total_found = 1
    /\ ReturnedList[1].type = "drag_along"
    /\ Len(ReturnedList[1].text) = Len(TTwice) - 2

\* C26: the text of every returned match is a substring of its context (the
\* strip of the window cuts nothing off the match), and the context is at most
\* 100 characters longer than the text.
C26_ContextHoldsMatch ==
    DetectorReturned =>
        \A k \in 1 .. Len(ReturnedList) :
            LET m == ReturnedList[k]
            IN  /\ Contains(m.context, m.text)
                /\ Len(m.context) <= Len(m.text) + 100
                /\ Len(m.context) >= Len(m.text)

\* a match longer than 50 characters that has whitespace on both sides in a
\* window that is the whole text: the strip has left the match alone
C26_Witness ==
    /\ DetectorReturned
    /\ Len(ReturnedList) > 0
    /\ Len(ReturnedList[1].text) > 50
    /\ ReturnedList[1].context = ReturnedList[1].text
    /\ Len(Window(text, ReturnedList[1].position,
                  ReturnedList[1].position + Len(ReturnedList[1].text)))
         > Len(ReturnedList[1].context)

\* no thread is inside a request
Quiet == \A t \in Threads : threads[t].pc = "idle"

\* C27: after any sequence of completed requests the counters agree:
\* requests_total = requests_successful + requests_failed = the number of
\* requests whose after_request hook ran, and uploads_total = analysis_total +
\* analysis_errors; also when threads handle requests at the same time.
C27_CountersConsistent ==
    Quiet =>
        /\ metrics.requests_total = traffic.completed
        /\ metrics.requests_total = metrics.requests_successful + metrics.requests_failed
        /\ metrics.uploads_total = metrics.analysis_total + metrics.analysis_errors

\* C28: after every request response_times has at most 1000 entries and
\* errors at most 100, and what each list holds are the most recent entries
\* in the order of arrival: the last response times that were appended, the
\* last errors that were stored.
C28_BoundedHistories ==
    Quiet =>
        /\ Len(metrics.response_times) = Min(1000, Len(traffic.timed))
        /\ \A k \in 1 .. Len(metrics.response_times) :
              metrics.response_times[k] =
                  traffic.timed[Len(traffic.timed) - Len(metrics.response_times) + k]
        /\ Len(metrics.errors) = Min(100, Len(traffic.raised))
        /\ \A k \in 1 .. Len(metrics.errors) :
              metrics.errors[k].request_id =
                  traffic.raised[Len(traffic.raised) - Len(metrics.errors) + k]

\* /health/detailed has answered with its status body
HealthReported == health # <<>> /\ health[1].status = 200

\* C29: whenever /health/detailed finds requests_total > 0 and requests_failed
\* / requests_total above 10%, the status it reports is 'unhealthy', whatever
\* the readings of the system and the number of recent errors.
C29_UnhealthyOnErrorRate ==
    (HealthReported
     /\ health[1].body.requests_total > 0
     /\ 10 * health[1].body.requests_failed > health[1].body.requests_total) =>
        health[1].body.status = "unhealthy"

\* C30: once the monitor is constructed, every GET /health/detailed that is
\* completed has answered with the status body, which has uptime_seconds; the
\* start time is set before the first request arrives.
C30_HealthHasUptime ==
    /\ health # <<>> =>
          /\ health[1].status = 200
          /\ "uptime_seconds" \in DOMAIN health[1].body
    /\ traffic.arrived > traffic.base => start_time # <<>>

=============================================================================
